---- MODULE Spec2Model ----
(***************************************************************************)
(* mongodb-queue.js: a lease-based message queue kept in one MongoDB       *)
(* collection.  The model follows src/mongodb-queue.js.                    *)
(*                                                                         *)
(* Time.  now() and nowPlusSecs() return ISO-8601 strings of the same      *)
(* fixed width, which MongoDB compares as strings; for such strings the    *)
(* string order is the order of the instants, so a timestamp is modelled   *)
(* as the integer instant it denotes and $lt / $gt as < / >.  One unit of  *)
(* the clock is one second, the unit of the delay and visibility options.  *)
(*                                                                         *)
(* Steps.  Every public function reads the clock and builds its query and  *)
(* update synchronously (the ...Start actions); the store executes the     *)
(* one atomic operation later (the ...Find / ...Insert / ...Delete         *)
(* actions), and node runs its callback later still (the ...Reply          *)
(* actions), together with the synchronous part of any function the        *)
(* callback calls; the clock and the other callers may move between the    *)
(* steps.  The clock readings of one synchronous stretch of code (the      *)
(* now() of a query and the nowPlusSecs() of its update) are one reading.  *)
(*                                                                         *)
(* Queues.  The callers hold the queue and, when one was configured, the   *)
(* Queue object passed as opts.deadQueue, on which they call add, get,     *)
(* ping, ack and clean like on any queue.  That Queue has no dead-letter   *)
(* queue of its own.                                                       *)
(*                                                                         *)
(* Store.  _id values are ordered by insertion.  insertOne and             *)
(* findOneAndUpdate are atomic.  deleteMany is atomic for each document    *)
(* only: the store examines the documents one after the other, in no       *)
(* particular order, and the other operations fall in between.  A store    *)
(* operation fails only when the store rejects the request itself          *)
(* (GetFind); outages of the store are not modelled.                       *)
(***************************************************************************)
EXTENDS Integers, Sequences, FiniteSets, TLC

\* ------------------------------------------------------------------ bounds
MaxTime == 4        \* the clock runs from 0 to MaxTime
MaxMsgs == 2        \* messages ever inserted into the queue
MaxTok == 3         \* calls of id(), i.e. claims ever started
MaxVis == 2         \* largest visibility option (seconds)
MaxDelay == 2       \* largest delay option (seconds)
MaxRetriesOpt == 1  \* largest maxRetries option
MaxCalls == 4       \* calls of the public functions, over all callers

Procs == {1, 2}         \* the concurrent callers
Payloads == {"A"}       \* payload values

\* A field that is absent from a document ($exists: false), or an option
\* that was not supplied.
None == -1

\* -------------------------------------------------------------- constants
DefaultVisibility == 30     \* opts.visibility || 30
DefaultDelay == 0           \* opts.delay || 0
DefaultMaxRetries == 5      \* opts.maxRetries || 5

VARIABLES
    clock,      \* the wall clock read by now()
    cfg,        \* the Queue object: visibility, delay, deadQueue, maxRetries
    col,        \* the queue's collection: _id -> document
    nextId,     \* the next _id the store assigns (ids are ordered by insertion)
    nextTok,    \* the next value id() returns
    dead,       \* the dead-letter queue's collection: _id -> document
    nextDeadId, \* the next _id the store assigns in the dead-letter collection
    pc,         \* per caller: where its current call stands
    call,       \* per caller: the locals of its current call and its result
    enq,        \* history: _id -> [t, delay] of the add() that inserted it
    moved,      \* history: dead-letter _id -> _id of the message handed over
    acked,      \* history: the tokens an ack() has succeeded with
    ncalls      \* history: the number of calls made so far

vars == <<clock, cfg, col, nextId, nextTok, dead, nextDeadId, pc, call, enq, moved,
          acked, ncalls>>

\* ------------------------------------------------------- helper functions

\* now(): the clock as read; nowPlusSecs(secs): the clock plus secs.
nowPlusSecs(t, secs) == t + secs

\* x || y of JavaScript for numbers: 0 and undefined are falsy.
OrElse(x, y) == IF x = None \/ x = 0 THEN y ELSE x

\* (mutant of id: every call returns the same value)
idConstant(n) == 1

\* id(): 16 random bytes in hex, the n-th call's value; modelled as a value
\* never returned before.
id(n) == n

\* new Queue(client, name, opts).  deadQueue is the set holding the Queue
\* object passed as opts.deadQueue, empty when none was passed; maxRetries
\* is set only together with it.
Queue(visibility, delay, deadQueue, maxRetries) ==
    [visibility |-> OrElse(visibility, DefaultVisibility),
     delay      |-> OrElse(delay, DefaultDelay),
     deadQueue  |-> deadQueue,
     maxRetries |-> IF deadQueue # {} THEN OrElse(maxRetries, DefaultMaxRetries)
                                      ELSE None]

\* if (self.deadQueue), and self.deadQueue itself
HasDead(q) == q.deadQueue # {}
DeadQueue(q) == CHOOSE d \in q.deadQueue : TRUE

\* ------------------------------------------------------------- documents

\* (mutant of AddVisible: the delay is ignored)
AddVisibleNoDelay(t, delay) == t

\* add(): the visible field of the new message
AddVisible(t, delay) == IF delay # 0 THEN nowPlusSecs(t, delay) ELSE t

\* add(): the inserted document (tries, ack, firstClaimed, deleted absent;
\* an absent tries counts as 0 for $inc)
NewMsg(t, delay, payload) ==
    [visible      |-> AddVisible(t, delay),
     payload      |-> payload,
     ack          |-> None,
     tries        |-> 0,
     firstClaimed |-> None,
     deleted      |-> None,
     user         |-> None]

\* (mutant of GetQuery: the visible test is dropped)
GetQueryNoVisible(d, t) == d.deleted = None

\* (mutant of GetQuery: the deleted test is dropped)
GetQueryNoDeleted(d, t) == d.visible < t

\* get(): query { visible: { $lt: now() }, deleted: { $exists: false } }
GetQuery(d, t) == d.visible < t /\ d.deleted = None

\* (mutant of GetUpdate: the claim does not record its ack)
GetUpdateNoAck(d, tok, t, visibility) ==
    [d EXCEPT !.tries = @ + 1,
              !.visible = nowPlusSecs(t, visibility),
              !.firstClaimed = t]

\* (mutant of GetUpdate: a claim counts twice)
GetUpdateIncTwice(d, tok, t, visibility) ==
    [d EXCEPT !.tries = @ + 2,
              !.ack = tok,
              !.visible = nowPlusSecs(t, visibility),
              !.firstClaimed = t]

\* (mutant of GetUpdate: tries is not incremented)
GetUpdateNoInc(d, tok, t, visibility) ==
    [d EXCEPT !.ack = tok,
              !.visible = nowPlusSecs(t, visibility),
              !.firstClaimed = t]

\* get(): update { $inc: { tries: 1 }, $set: { ack, visible, firstClaimed } }
GetUpdate(d, tok, t, visibility) ==
    [d EXCEPT !.tries = @ + 1,
              !.ack = tok,
              !.visible = nowPlusSecs(t, visibility),
              !.firstClaimed = t]

\* (mutant of FirstById: the sort is descending)
LastById(S) == CHOOSE i \in S : \A j \in S : i >= j

\* get(): sort { _id: 1 } -- the matching document with the smallest _id
FirstById(S) == CHOOSE i \in S : \A j \in S : i <= j

\* get(): the documents of c matching the query
GetMatches(c, t) == {i \in DOMAIN c : GetQuery(c[i], t)}

\* (mutant of LeaseQuery: the deleted test is dropped)
LeaseQueryNoDeleted(d, tok, t) == d.ack = tok /\ d.visible > t

\* (mutant of LeaseQuery: the visible test is dropped)
LeaseQueryNoVisible(d, tok, t) == d.ack = tok /\ d.deleted = None

\* ping() and ack(): query { ack: ack, visible: { $gt: now() }, deleted: { $exists: false } }
LeaseQuery(d, tok, t) == d.ack = tok /\ d.visible > t /\ d.deleted = None

LeaseMatches(c, tok, t) == {i \in DOMAIN c : LeaseQuery(c[i], tok, t)}

\* findOneAndUpdate without a sort: some matching document
AnyOf(S) == CHOOSE i \in S : TRUE

\* (mutant of PingUpdate: the renewal also starts the count of tries again)
PingUpdateResetsTries(d, t, visibility) ==
    [d EXCEPT !.visible = nowPlusSecs(t, visibility), !.tries = 0]

\* ping(): update { $set: { visible: nowPlusSecs(visibility) } }
PingUpdate(d, t, visibility) == [d EXCEPT !.visible = nowPlusSecs(t, visibility)]

\* (mutant of AckUpdate: deleted is not set)
AckUpdateNoop(d, t) == d

\* ack(): update { $set: { deleted: now() } }
AckUpdate(d, t) == [d EXCEPT !.deleted = t]

\* (mutant of CleanQuery: every message that was ever claimed is purged)
CleanQueryClaimed(d) == d.ack # None

\* clean(): query { deleted: { $exists: true } }
CleanQuery(d) == d.deleted # None

\* get(): msg.tries > self.maxRetries, only when a deadQueue is configured
Exhausted(q, msg) == HasDead(q) /\ msg.tries > q.maxRetries

\* get(): msg.id = msg._id.toHexString(); delete msg._id
AsMsg(i, d) ==
    [id |-> i, visible |-> d.visible, payload |-> d.payload, ack |-> d.ack,
     tries |-> d.tries, firstClaimed |-> d.firstClaimed, deleted |-> d.deleted,
     user |-> d.user]

NoMsg ==
    [id |-> None, visible |-> None, payload |-> "", ack |-> None,
     tries |-> None, firstClaimed |-> None, deleted |-> None, user |-> None]

\* ---------------------------------------------------------------- metrics

\* size(): count { visible: { $lt: now() }, deleted: { $exists: false } }
size(c, t) == Cardinality({i \in DOMAIN c : c[i].visible < t /\ c[i].deleted = None})

\* inFlight(): count { visible: { $gt: now() }, ack: { $exists: true }, deleted: { $exists: false } }
inFlight(c, t) ==
    Cardinality({i \in DOMAIN c :
                    c[i].visible > t /\ c[i].ack # None /\ c[i].deleted = None})

\* done(): count { deleted: { $exists: true } }
done(c) == Cardinality({i \in DOMAIN c : c[i].deleted # None})

\* total(): count of all documents
total(c) == Cardinality(DOMAIN c)

\* ------------------------------------------------------------ call records

\* The locals of a call.  op: the public function; on: the Queue object it
\* was called on ("main": the queue, "dead": the Queue passed to it as
\* opts.deadQueue); t: the clock it read; vis: opts.visibility (None when
\* not supplied); user: opts.user; tok: the ack it generated (get) or was
\* given (ping, ack); delay, payload: add's arguments; msg: the document
\* findOneAndUpdate returned; res: the result of the store operation, which
\* the callback receives; rid: the identifier the callback receives; count:
\* the deletedCount the callback of clean() receives; dt: the clock read by
\* the deadQueue.add() of the hand-off; dl: the messages this get() has
\* handed to the dead-letter queue; asked: the opts.visibility the caller
\* of get() passed, kept across the recursion; todo: the documents the
\* deleteMany of clean() has still to examine; mark: the first _id not yet
\* assigned when that deleteMany began; acked0: the tokens acknowledged
\* when that deleteMany began (history).
NoCall ==
    [op |-> "none", on |-> "none", t |-> None, vis |-> None, user |-> None,
     tok |-> None, delay |-> None, payload |-> "", msg |-> NoMsg,
     res |-> "none", rid |-> None, count |-> None, dt |-> None, dl |-> {},
     asked |-> None, todo |-> {}, mark |-> None, acked0 |-> {}]

Users == {None, 1}

\* the visibility options a caller passes: none, or MaxVis seconds
VisOpts == {None, MaxVis}

\* the delay options a producer passes: none, or MaxDelay seconds
DelayOpts == {None, MaxDelay}

\* the values of opts.deadQueue: none, or a Queue constructed with the
\* default visibility and without or with a delay of its own
DeadQueues == {{}} \cup {{Queue(None, d, {}, None)} : d \in DelayOpts}

\* the Queue objects the callers hold
Queues == IF HasDead(cfg) THEN {"main", "dead"} ELSE {"main"}

\* self and self.col of a call on the Queue object on
QueueOf(on) == IF on = "dead" THEN DeadQueue(cfg) ELSE cfg
ColOf(on) == IF on = "dead" THEN dead ELSE col

\* a write of self.col: the collection of on becomes c, the other is untouched
Store(on, c) ==
    IF on = "dead" THEN dead' = c /\ col' = col
                   ELSE col' = c /\ dead' = dead

\* the _id the store assigns to the next document inserted in self.col
NextIdOf(on) == IF on = "dead" THEN nextDeadId ELSE nextId

\* ------------------------------------------------------------------- Init

Init ==
    /\ clock = 0
    /\ \E dq \in DeadQueues, r \in 1..MaxRetriesOpt : cfg = Queue(1, 0, dq, r)
    /\ col = <<>>
    /\ nextId = 1
    /\ nextTok = 1
    /\ dead = <<>>
    /\ nextDeadId = 1
    /\ pc = [p \in Procs |-> "idle"]
    /\ call = [p \in Procs |-> NoCall]
    /\ enq = <<>>
    /\ moved = <<>>
    /\ acked = {}
    /\ ncalls = 0

\* A caller starts a call when it has none in progress.
Free(p) == pc[p] = "idle" /\ ncalls < MaxCalls

\* ------------------------------------------------------------------ clock

\* The clock advances by one second, up to the instant last.
TickTo(last) ==
    /\ clock < last
    /\ clock' = clock + 1
    /\ UNCHANGED <<cfg, col, nextId, nextTok, dead, nextDeadId, pc, call, enq,
                   moved, ncalls, acked>>

Tick == TickTo(MaxTime)

\* -------------------------------------------------------------------- add

\* add(payload, opts, callback) on the Queue object on: lines 74-87, up to
\* the call of insertOne
AddStart(p, on, payload, delay) ==
    /\ Free(p)
    /\ NextIdOf(on)
         + Cardinality({q \in Procs : pc[q] = "add_insert" /\ call[q].on = on})
       <= MaxMsgs
    /\ call' = [call EXCEPT ![p] =
                   [NoCall EXCEPT !.op = "add", !.on = on, !.t = clock,
                                  !.delay = OrElse(delay, QueueOf(on).delay),
                                  !.payload = payload]]
    /\ pc' = [pc EXCEPT ![p] = "add_insert"]
    /\ UNCHANGED <<clock, cfg, col, nextId, nextTok, dead, nextDeadId, enq,
                   moved, acked>>
    /\ ncalls' = ncalls + 1

\* The store executes insertOne (line 88); its reply carries the _id of the
\* new document.
AddInsert(p) ==
    /\ pc[p] = "add_insert"
    /\ LET on == call[p].on
           i == NextIdOf(on)
       IN  /\ Store(on, ColOf(on) @@
                        (i :> NewMsg(call[p].t, call[p].delay, call[p].payload)))
           /\ IF on = "dead"
              THEN /\ nextDeadId' = nextDeadId + 1
                   /\ UNCHANGED <<nextId, enq>>
              ELSE /\ nextId' = nextId + 1
                   /\ enq' = enq @@ (i :> [t |-> call[p].t, delay |-> call[p].delay])
                   /\ nextDeadId' = nextDeadId
           /\ call' = [call EXCEPT ![p].res = "id", ![p].rid = i]
    /\ pc' = [pc EXCEPT ![p] = "add_reply"]
    /\ UNCHANGED <<clock, cfg, nextTok, moved, ncalls, acked>>

\* The callback of insertOne runs: lines 88-94.
AddReply(p) ==
    /\ pc[p] = "add_reply"
    /\ pc' = [pc EXCEPT ![p] = "done"]
    /\ UNCHANGED <<clock, cfg, col, nextId, nextTok, dead, nextDeadId, call,
                   enq, moved, ncalls, acked>>

\* -------------------------------------------------------------------- get

\* get(opts, callback) on the Queue object on: lines 97-125, up to the call
\* of findOneAndUpdate
GetStart(p, on, vis, user) ==
    /\ Free(p)
    /\ nextTok <= MaxTok
    /\ call' = [call EXCEPT ![p] =
                   [NoCall EXCEPT !.op = "get", !.on = on, !.t = clock,
                                  !.vis = vis, !.user = user,
                                  !.tok = id(nextTok), !.asked = vis]]
    /\ nextTok' = nextTok + 1
    /\ pc' = [pc EXCEPT ![p] = "get_find"]
    /\ UNCHANGED <<clock, cfg, col, nextId, dead, nextDeadId, enq, moved, acked>>
    /\ ncalls' = ncalls + 1

\* The store executes findOneAndUpdate (line 127).  An update document that
\* mixes the operators with the plain field user (line 124) is rejected by
\* the store; otherwise the reply carries the updated document, or none.
GetFind(p) ==
    /\ pc[p] = "get_find"
    /\ LET on == call[p].on
           self == QueueOf(on)
           c == ColOf(on)
           t == call[p].t
           found == GetMatches(c, t)
       IN  IF call[p].user # None
           THEN /\ call' = [call EXCEPT ![p].res = "StorageError"]
                /\ UNCHANGED <<col, dead>>
           ELSE IF found = {}
           THEN /\ call' = call
                /\ UNCHANGED <<col, dead>>
           ELSE LET i == FirstById(found)
                    d == GetUpdate(c[i], call[p].tok, t,
                                   OrElse(call[p].vis, self.visibility))
                IN  /\ Store(on, [c EXCEPT ![i] = d])
                    /\ call' = [call EXCEPT ![p].msg = AsMsg(i, d)]
    /\ pc' = [pc EXCEPT ![p] = "get_reply"]
    /\ UNCHANGED <<clock, cfg, nextId, nextTok, nextDeadId, enq, moved, ncalls,
                   acked>>

\* The callback of findOneAndUpdate runs: lines 127-166.  An error goes to
\* the caller (line 129), no document is an empty result (line 135).  For a
\* message with too many tries the callback calls deadQueue.add (line 149),
\* which reads the clock for the new document's visible (lines 82-84) and
\* sends its insertOne; otherwise the message goes to the caller (line 165).
GetReply(p) ==
    /\ pc[p] = "get_reply"
    /\ LET msg == call[p].msg
       IN  IF call[p].res = "StorageError"
           THEN /\ call' = call
                /\ pc' = [pc EXCEPT ![p] = "done"]
           ELSE IF msg.id = None
           THEN /\ call' = [call EXCEPT ![p].res = "empty"]
                /\ pc' = [pc EXCEPT ![p] = "done"]
           ELSE IF Exhausted(QueueOf(call[p].on), msg)
           THEN /\ call' = [call EXCEPT ![p].dt = clock]
                /\ pc' = [pc EXCEPT ![p] = "dead_add"]
           ELSE /\ call' = [call EXCEPT ![p].res = "msg", ![p].rid = msg.id]
                /\ pc' = [pc EXCEPT ![p] = "done"]
    /\ UNCHANGED <<clock, cfg, col, nextId, nextTok, dead, nextDeadId, enq,
                   moved, ncalls, acked>>

\* The store executes the insertOne of self.deadQueue.add(msg, ...) (line
\* 149).  add() runs on the dead-letter Queue: the document is
\* { visible, payload: msg } with visible from the clock add() read and the
\* dead-letter queue's own delay (lines 82-86).
DeadAdd(p) ==
    /\ pc[p] = "dead_add"
    /\ dead' = dead @@ (nextDeadId :>
                          NewMsg(call[p].dt, DeadQueue(cfg).delay, call[p].msg))
    /\ moved' = moved @@ (nextDeadId :> call[p].msg.id)
    /\ nextDeadId' = nextDeadId + 1
    /\ call' = [call EXCEPT ![p].dl = @ \cup {call[p].msg.id}]
    /\ pc' = [pc EXCEPT ![p] = "dead_add_reply"]
    /\ UNCHANGED <<clock, cfg, col, nextId, nextTok, enq, ncalls, acked>>

\* The callback of deadQueue.add runs (lines 149-154): it calls
\* self.ack(msg.ack, ...), which reads the clock, builds its query (lines
\* 202-214) and sends its findOneAndUpdate.
DeadAddReply(p) ==
    /\ pc[p] = "dead_add_reply"
    /\ call' = [call EXCEPT ![p].t = clock]
    /\ pc' = [pc EXCEPT ![p] = "dead_ack_find"]
    /\ UNCHANGED <<clock, cfg, col, nextId, nextTok, dead, nextDeadId, enq,
                   moved, ncalls, acked>>

\* The store executes the findOneAndUpdate of the ack inside the hand-off
\* (line 216); no document in its reply is an error (lines 221-223).
DeadAckFind(p) ==
    /\ pc[p] = "dead_ack_find"
    /\ LET found == LeaseMatches(col, call[p].msg.ack, call[p].t)
       IN  IF found = {}
           THEN /\ col' = col
                /\ acked' = acked
                /\ call' = [call EXCEPT ![p].res = "UnknownLease"]
           ELSE LET i == AnyOf(found)
                IN  /\ col' = [col EXCEPT ![i] = AckUpdate(@, call[p].t)]
                    /\ acked' = acked \cup {call[p].msg.ack}
                    /\ call' = call
    /\ pc' = [pc EXCEPT ![p] = "dead_ack_reply"]
    /\ UNCHANGED <<clock, cfg, nextId, nextTok, dead, nextDeadId, enq, moved,
                   ncalls>>

\* The callback of that ack runs: lines 155-159.  An error goes to the
\* caller (line 156).  Otherwise the callback calls self.get(callback) (line
\* 159): the callback arrives as opts, so opts becomes {} (lines 100-103):
\* no user, the queue's visibility, a new id(), the clock read now.
DeadAckReply(p) ==
    /\ pc[p] = "dead_ack_reply"
    /\ IF call[p].res = "UnknownLease"
       THEN /\ call' = call
            /\ nextTok' = nextTok
            /\ pc' = [pc EXCEPT ![p] = "done"]
       ELSE /\ call' = [call EXCEPT ![p].t = clock, ![p].vis = None,
                                    ![p].user = None, ![p].tok = id(nextTok),
                                    ![p].msg = NoMsg]
            /\ nextTok' = nextTok + 1
            /\ pc' = [pc EXCEPT ![p] = "get_find"]
    /\ UNCHANGED <<clock, cfg, col, nextId, dead, nextDeadId, enq, moved, ncalls,
                   acked>>

\* ------------------------------------------------------------------- ping

\* ping(ack, opts, callback) on the Queue object on: lines 169-187
PingStart(p, on, tok, vis) ==
    /\ Free(p)
    /\ call' = [call EXCEPT ![p] =
                   [NoCall EXCEPT !.op = "ping", !.on = on, !.t = clock,
                                  !.vis = vis, !.tok = tok]]
    /\ pc' = [pc EXCEPT ![p] = "ping_find"]
    /\ UNCHANGED <<clock, cfg, col, nextId, nextTok, dead, nextDeadId, enq,
                   moved, acked>>
    /\ ncalls' = ncalls + 1

\* The store executes findOneAndUpdate (line 189); no document in its reply
\* is an error (lines 194-196), a document gives its _id (line 198).
PingFind(p) ==
    /\ pc[p] = "ping_find"
    /\ LET on == call[p].on
           c == ColOf(on)
           found == LeaseMatches(c, call[p].tok, call[p].t)
       IN  IF found = {}
           THEN /\ UNCHANGED <<col, dead>>
                /\ call' = [call EXCEPT ![p].res = "UnknownLease"]
           ELSE LET i == AnyOf(found)
                IN  /\ Store(on, [c EXCEPT ![i] =
                                     PingUpdate(@, call[p].t,
                                                OrElse(call[p].vis,
                                                       QueueOf(on).visibility))])
                    /\ call' = [call EXCEPT ![p].res = "id", ![p].rid = i]
    /\ pc' = [pc EXCEPT ![p] = "ping_reply"]
    /\ UNCHANGED <<clock, cfg, nextId, nextTok, nextDeadId, enq, moved, ncalls,
                   acked>>

\* The callback of findOneAndUpdate runs: lines 189-199.
PingReply(p) ==
    /\ pc[p] = "ping_reply"
    /\ pc' = [pc EXCEPT ![p] = "done"]
    /\ UNCHANGED <<clock, cfg, col, nextId, nextTok, dead, nextDeadId, call,
                   enq, moved, ncalls, acked>>

\* -------------------------------------------------------------------- ack

\* ack(ack, callback) on the Queue object on: lines 202-214
AckStart(p, on, tok) ==
    /\ Free(p)
    /\ call' = [call EXCEPT ![p] =
                   [NoCall EXCEPT !.op = "ack", !.on = on, !.t = clock,
                                  !.tok = tok]]
    /\ pc' = [pc EXCEPT ![p] = "ack_find"]
    /\ UNCHANGED <<clock, cfg, col, nextId, nextTok, dead, nextDeadId, enq,
                   moved, acked>>
    /\ ncalls' = ncalls + 1

\* The store executes findOneAndUpdate (line 216); no document in its reply
\* is an error (lines 221-223), a document gives its _id (line 225).
AckFind(p) ==
    /\ pc[p] = "ack_find"
    /\ LET on == call[p].on
           c == ColOf(on)
           found == LeaseMatches(c, call[p].tok, call[p].t)
       IN  IF found = {}
           THEN /\ UNCHANGED <<col, dead>>
                /\ acked' = acked
                /\ call' = [call EXCEPT ![p].res = "UnknownLease"]
           ELSE LET i == AnyOf(found)
                IN  /\ Store(on, [c EXCEPT ![i] = AckUpdate(@, call[p].t)])
                    /\ acked' = acked \cup {call[p].tok}
                    /\ call' = [call EXCEPT ![p].res = "id", ![p].rid = i]
    /\ pc' = [pc EXCEPT ![p] = "ack_reply"]
    /\ UNCHANGED <<clock, cfg, nextId, nextTok, nextDeadId, enq, moved, ncalls>>

\* The callback of findOneAndUpdate runs: lines 216-226.
AckReply(p) ==
    /\ pc[p] = "ack_reply"
    /\ pc' = [pc EXCEPT ![p] = "done"]
    /\ UNCHANGED <<clock, cfg, col, nextId, nextTok, dead, nextDeadId, call,
                   enq, moved, ncalls, acked>>

\* ------------------------------------------------------------------ clean

\* clean(callback) on the Queue object on: lines 229-236, up to the call of
\* deleteMany
CleanStart(p, on) ==
    /\ Free(p)
    /\ call' = [call EXCEPT ![p] = [NoCall EXCEPT !.op = "clean", !.on = on]]
    /\ pc' = [pc EXCEPT ![p] = "clean_delete"]
    /\ UNCHANGED <<clock, cfg, col, nextId, nextTok, dead, nextDeadId, enq,
                   moved, acked>>
    /\ ncalls' = ncalls + 1

\* The store executes deleteMany({ deleted: { $exists: true } }) (line 236),
\* one document in each step.  The first step fixes the documents to
\* examine, those of the collection at that moment; a document inserted
\* later may be examined as well, at any moment before the last step.  A
\* document examined is removed when it has deleted at that moment.  With
\* the last document examined the reply goes out; it carries the number of
\* documents removed.
CleanDelete(p) ==
    /\ pc[p] \in {"clean_delete", "clean_scan"}
    /\ LET on == call[p].on
           c == ColOf(on)
           begins == pc[p] = "clean_delete"
           todo == IF begins THEN DOMAIN c ELSE call[p].todo
           mark == IF begins THEN NextIdOf(on) ELSE call[p].mark
           count == IF begins THEN 0 ELSE call[p].count
           acked0 == IF begins THEN acked ELSE call[p].acked0
           later == {j \in DOMAIN c : j >= mark}
       IN  IF todo = {}
           THEN /\ UNCHANGED <<col, dead, enq>>
                /\ call' = [call EXCEPT ![p].res = "ok", ![p].count = 0,
                                        ![p].mark = mark, ![p].acked0 = acked0]
                /\ pc' = [pc EXCEPT ![p] = "clean_reply"]
           ELSE \E i \in todo \cup later :
                    LET hit == i \in DOMAIN c /\ CleanQuery(c[i])
                        keep == DOMAIN c \ {i}
                        rest == todo \ {i}
                    IN  /\ IF hit
                           THEN /\ Store(on, [j \in keep |-> c[j]])
                                /\ enq' = IF on = "main" THEN [j \in keep |-> enq[j]]
                                                         ELSE enq
                           ELSE UNCHANGED <<col, dead, enq>>
                        /\ call' = [call EXCEPT
                                       ![p].todo = rest, ![p].mark = mark,
                                       ![p].acked0 = acked0,
                                       ![p].count = count + (IF hit THEN 1 ELSE 0),
                                       ![p].res = IF rest = {} THEN "ok" ELSE "none"]
                        /\ pc' = [pc EXCEPT ![p] = IF rest = {} THEN "clean_reply"
                                                               ELSE "clean_scan"]
    /\ UNCHANGED <<clock, cfg, nextId, nextTok, nextDeadId, moved, ncalls, acked>>

\* The callback of deleteMany runs: line 236.
CleanReply(p) ==
    /\ pc[p] = "clean_reply"
    /\ pc' = [pc EXCEPT ![p] = "done"]
    /\ UNCHANGED <<clock, cfg, col, nextId, nextTok, dead, nextDeadId, call,
                   enq, moved, ncalls, acked>>

\* The caller's callback has received the result in call[p] and returns; the
\* caller is free for its next call.
Return(p) ==
    /\ pc[p] = "done"
    /\ pc' = [pc EXCEPT ![p] = "idle"]
    /\ call' = [call EXCEPT ![p] = NoCall]
    /\ UNCHANGED <<clock, cfg, col, nextId, nextTok, dead, nextDeadId, enq,
                   moved, ncalls, acked>>

\* ------------------------------------------------------------------- Next

\* the lease tokens a caller may present: every id() value generated so far
Presentable == 1..(nextTok - 1)

\* The caller's callback runs to completion: once it has the result
\* (pc = "done") it returns before the next step of any call or of the
\* clock.
Quiet == \A p \in Procs : pc[p] # "done"

Next ==
    \/ \E p \in Procs : Return(p)
    \/ Quiet /\ Tick
    \/ \E p \in Procs, on \in Queues, pl \in Payloads, d \in DelayOpts :
           Quiet /\ AddStart(p, on, pl, d)
    \/ \E p \in Procs : Quiet /\ AddInsert(p)
    \/ \E p \in Procs : Quiet /\ AddReply(p)
    \/ \E p \in Procs, on \in Queues, v \in VisOpts, u \in Users :
           Quiet /\ GetStart(p, on, v, u)
    \/ \E p \in Procs : Quiet /\ GetFind(p)
    \/ \E p \in Procs : Quiet /\ GetReply(p)
    \/ \E p \in Procs : Quiet /\ DeadAdd(p)
    \/ \E p \in Procs : Quiet /\ DeadAddReply(p)
    \/ \E p \in Procs : Quiet /\ DeadAckFind(p)
    \/ \E p \in Procs : Quiet /\ DeadAckReply(p)
    \/ \E p \in Procs, on \in Queues, k \in Presentable, v \in VisOpts :
           Quiet /\ PingStart(p, on, k, v)
    \/ \E p \in Procs : Quiet /\ PingFind(p)
    \/ \E p \in Procs : Quiet /\ PingReply(p)
    \/ \E p \in Procs, on \in Queues, k \in Presentable :
           Quiet /\ AckStart(p, on, k)
    \/ \E p \in Procs : Quiet /\ AckFind(p)
    \/ \E p \in Procs : Quiet /\ AckReply(p)
    \/ \E p \in Procs, on \in Queues : Quiet /\ CleanStart(p, on)
    \/ \E p \in Procs : Quiet /\ CleanDelete(p)
    \/ \E p \in Procs : Quiet /\ CleanReply(p)

Spec == Init /\ [][Next]_vars

\* ------------------------------------------------------- the queue alone

\* The dead-letter queue, when one is configured, has no delay of its own.
InitQueue == Init /\ (HasDead(cfg) => DeadQueue(cfg).delay = DefaultDelay)

\* The callers call add, get, ping, ack and clean on the queue and leave the
\* dead-letter queue to the hand-off of get().
NextQueue ==
    \/ \E p \in Procs : Return(p)
    \/ Quiet /\ Tick
    \/ \E p \in Procs, pl \in Payloads, d \in DelayOpts :
           Quiet /\ AddStart(p, "main", pl, d)
    \/ \E p \in Procs : Quiet /\ AddInsert(p)
    \/ \E p \in Procs : Quiet /\ AddReply(p)
    \/ \E p \in Procs, v \in VisOpts, u \in Users :
           Quiet /\ GetStart(p, "main", v, u)
    \/ \E p \in Procs : Quiet /\ GetFind(p)
    \/ \E p \in Procs : Quiet /\ GetReply(p)
    \/ \E p \in Procs : Quiet /\ DeadAdd(p)
    \/ \E p \in Procs : Quiet /\ DeadAddReply(p)
    \/ \E p \in Procs : Quiet /\ DeadAckFind(p)
    \/ \E p \in Procs : Quiet /\ DeadAckReply(p)
    \/ \E p \in Procs, k \in Presentable, v \in VisOpts :
           Quiet /\ PingStart(p, "main", k, v)
    \/ \E p \in Procs : Quiet /\ PingFind(p)
    \/ \E p \in Procs : Quiet /\ PingReply(p)
    \/ \E p \in Procs, k \in Presentable : Quiet /\ AckStart(p, "main", k)
    \/ \E p \in Procs : Quiet /\ AckFind(p)
    \/ \E p \in Procs : Quiet /\ AckReply(p)
    \/ \E p \in Procs : Quiet /\ CleanStart(p, "main")
    \/ \E p \in Procs : Quiet /\ CleanDelete(p)
    \/ \E p \in Procs : Quiet /\ CleanReply(p)

SpecQueue == InitQueue /\ [][NextQueue]_vars

\* ------------------------------------------------- concurrent claims only

\* the visibility a get() call in flight will give its lease
LeaseOf(p) == OrElse(call[p].vis, QueueOf(call[p].on).visibility)

\* no get() has been started yet
Setup == nextTok = 1

\* The clock moves on without making any message claimable that was not:
\* no delay or lease ends at this instant, and no get() in flight is about
\* to issue a lease that has already ended.
TickStable ==
    /\ \A i \in DOMAIN col : col[i].deleted = None => col[i].visible # clock
    /\ \A p \in Procs : pc[p] = "get_find" => call[p].t + LeaseOf(p) > clock
    /\ Tick

\* Producers fill a queue that has no dead-letter queue; then every caller
\* makes at most one get() (without a user), concurrently with the others,
\* while nothing is enqueued and no delay or lease ends.  The result of a
\* get() stays in call[p].
InitClaims == Init /\ ~HasDead(cfg)

NextClaims ==
    \/ \E p \in Procs : call[p].op = "add" /\ Return(p)
    \/ Setup /\ Tick
    \/ \E p \in Procs, pl \in Payloads, d \in DelayOpts :
           Setup /\ AddStart(p, "main", pl, d)
    \/ \E p \in Procs : AddInsert(p)
    \/ \E p \in Procs : AddReply(p)
    \/ \E p \in Procs, v \in VisOpts :
           (\A q \in Procs : call[q].op # "add") /\ GetStart(p, "main", v, None)
    \/ \E p \in Procs : GetFind(p)
    \/ \E p \in Procs : GetReply(p)
    \/ ~Setup /\ TickStable

SpecClaims == InitClaims /\ [][NextClaims]_vars

\* ------------------------------------------------------- a single caller

\* The clock moves on without ending a lease: no claimed message becomes
\* claimable again, and no get() in flight is about to issue a lease that
\* has already ended.
TickNoExpiry ==
    /\ \A i \in DOMAIN col :
           (col[i].ack # None /\ col[i].deleted = None) => col[i].visible > clock
    /\ \A p \in Procs : pc[p] = "get_find" => call[p].t + LeaseOf(p) > clock
    /\ Tick

\* One caller enqueues without delay and claims, one call after the other,
\* and no lease ends.
NextSingle ==
    \/ Return(1)
    \/ \E pl \in Payloads : Quiet /\ AddStart(1, "main", pl, None)
    \/ Quiet /\ AddInsert(1)
    \/ Quiet /\ AddReply(1)
    \/ \E v \in VisOpts : Quiet /\ GetStart(1, "main", v, None)
    \/ Quiet /\ GetFind(1)
    \/ Quiet /\ GetReply(1)
    \/ Quiet /\ TickNoExpiry

SpecSingle == Init /\ [][NextSingle]_vars

\* ------------------------------------------------ the dead-letter hand-off

\* A dead-letter queue is configured.
InitHandOff == Init /\ HasDead(cfg)

\* The callers enqueue without delay and claim; a message goes to the
\* dead-letter queue at its (maxRetries + 1)-th claim, and a message handed
\* over twice is one claimed once more, so the clock runs one second longer.
NextHandOff ==
    \/ \E p \in Procs : Return(p)
    \/ Quiet /\ TickTo(MaxTime + 1)
    \/ \E p \in Procs, pl \in Payloads : Quiet /\ AddStart(p, "main", pl, None)
    \/ \E p \in Procs : Quiet /\ AddInsert(p)
    \/ \E p \in Procs : Quiet /\ AddReply(p)
    \/ \E p \in Procs, v \in VisOpts : Quiet /\ GetStart(p, "main", v, None)
    \/ \E p \in Procs : Quiet /\ GetFind(p)
    \/ \E p \in Procs : Quiet /\ GetReply(p)
    \/ \E p \in Procs : Quiet /\ DeadAdd(p)
    \/ \E p \in Procs : Quiet /\ DeadAddReply(p)
    \/ \E p \in Procs : Quiet /\ DeadAckFind(p)
    \/ \E p \in Procs : Quiet /\ DeadAckReply(p)

SpecHandOff == InitHandOff /\ [][NextHandOff]_vars

\* The next step of p's call in progress: the store executes the operation
\* it was sent, or node runs the callback of the operation executed.
CallStep(p) ==
    \/ Return(p)
    \/ Quiet /\ AddInsert(p)
    \/ Quiet /\ AddReply(p)
    \/ Quiet /\ GetFind(p)
    \/ Quiet /\ GetReply(p)
    \/ Quiet /\ DeadAdd(p)
    \/ Quiet /\ DeadAddReply(p)
    \/ Quiet /\ DeadAckFind(p)
    \/ Quiet /\ DeadAckReply(p)

\* Every operation sent to the store completes and every callback runs: a
\* call in progress is not left waiting for ever.  Nothing obliges a caller
\* to start a call or the clock to advance.
SpecHandOffLive ==
    InitHandOff /\ [][NextHandOff]_vars /\ \A p \in Procs : WF_vars(CallStep(p))

\* ------------------------------------------------------------- the purge

\* MaxMsgs messages were enqueued at clock 0 without delay, no call is in
\* progress and no dead-letter queue is configured: the state of Spec after
\* MaxMsgs add() calls, with the count of calls starting from here.
InitPurge ==
    /\ clock = 0
    /\ \E r \in 1..MaxRetriesOpt : cfg = Queue(1, 0, {}, r)
    /\ col = [i \in 1..MaxMsgs |-> NewMsg(0, cfg.delay, "A")]
    /\ nextId = MaxMsgs + 1
    /\ nextTok = 1
    /\ dead = <<>>
    /\ nextDeadId = 1
    /\ pc = [p \in Procs |-> "idle"]
    /\ call = [p \in Procs |-> NoCall]
    /\ enq = [i \in 1..MaxMsgs |-> [t |-> 0, delay |-> cfg.delay]]
    /\ moved = <<>>
    /\ acked = {}
    /\ ncalls = 0

\* The callers claim, renew, acknowledge and purge.
NextPurge ==
    \/ \E p \in Procs : Return(p)
    \/ Quiet /\ Tick
    \/ \E p \in Procs, v \in VisOpts : Quiet /\ GetStart(p, "main", v, None)
    \/ \E p \in Procs : Quiet /\ GetFind(p)
    \/ \E p \in Procs : Quiet /\ GetReply(p)
    \/ \E p \in Procs, tok \in Presentable, v \in VisOpts :
           Quiet /\ PingStart(p, "main", tok, v)
    \/ \E p \in Procs : Quiet /\ PingFind(p)
    \/ \E p \in Procs : Quiet /\ PingReply(p)
    \/ \E p \in Procs, tok \in Presentable : Quiet /\ AckStart(p, "main", tok)
    \/ \E p \in Procs : Quiet /\ AckFind(p)
    \/ \E p \in Procs : Quiet /\ AckReply(p)
    \/ \E p \in Procs : Quiet /\ CleanStart(p, "main")
    \/ \E p \in Procs : Quiet /\ CleanDelete(p)
    \/ \E p \in Procs : Quiet /\ CleanReply(p)

SpecPurge == InitPurge /\ [][NextPurge]_vars

\* ===================================================================
\* Properties
\* ===================================================================

\* the step in which p's findOneAndUpdate of a get() on the queue claimed a
\* message
Claims(p) ==
    pc[p] = "get_find" /\ call[p].on = "main" /\ call'[p].msg.id # None

\* the step in which the store executes the findOneAndUpdate of p's ping()
\* or ack() on the queue; call'[p].res is the result the callback is to
\* receive
LeaseOpEnds(p) ==
    /\ pc[p] \in {"ping_find", "ack_find"} /\ call[p].on = "main"
    /\ pc'[p] \in {"ping_reply", "ack_reply"}

\* document i is claimable for a query built at clock reading t
Eligible(i, t) == col[i].visible < t /\ col[i].deleted = None

\* document i is under an unexpired lease at instant t
LiveLease(i, t) ==
    col[i].ack # None /\ col[i].visible > t /\ col[i].deleted = None

\* ---------------------------------------------------------------- C1
\* C1: under every interleaving of the callers, no get() ever claims a
\* message that is, at that instant, not Done and has its visible after
\* the clock (the lease of an earlier claim is still running).
C1_NoClaimOfLeased ==
    [][\A p \in Procs :
          Claims(p) =>
              LET i == call'[p].msg.id
              IN  ~(col[i].visible > clock /\ col[i].deleted = None)]_vars

\* C1 witness: a get() came back empty although a message that was
\* enqueued and visible before the call's clock reading is in the queue:
\* the message is under another caller's unexpired lease.
C1_Witness ==
    \E p \in Procs :
        /\ pc[p] = "done" /\ call[p].op = "get" /\ call[p].on = "main" /\ call[p].res = "empty"
        /\ \E i \in DOMAIN col :
               /\ LiveLease(i, clock)
               /\ enq[i].t + enq[i].delay < call[p].t

\* ---------------------------------------------------------------- C2
\* the lease of token tok is over for a call that read the clock at t: no
\* document carries tok with visible after t (the message was re-claimed
\* under another token, was purged, or its visible has passed)
LeaseExpired(tok, t) ==
    \A i \in DOMAIN col : col[i].ack = tok => col[i].visible <= t

\* C2: a ping() or ack() whose token's lease has expired fails with the
\* unknown-lease error and leaves the queue, the dead-letter queue and
\* every message unchanged, whether or not the message was re-claimed.
C2_ExpiredTokenFails ==
    [][\A p \in Procs :
          (LeaseOpEnds(p) /\ LeaseExpired(call[p].tok, call[p].t)) =>
              /\ call'[p].res = "UnknownLease"
              /\ col' = col
              /\ dead' = dead]_vars

\* C2 witness: the only message ever enqueued was claimed twice, is under
\* the live lease of the second claim, and a ping() or ack() with the
\* first claim's token has just failed.
C2_Witness ==
    \E p \in Procs :
        /\ pc[p] = "done" /\ call[p].op \in {"ping", "ack"} /\ call[p].on = "main"
        /\ call[p].res = "UnknownLease"
        /\ nextId = 2 /\ 1 \in DOMAIN col
        /\ col[1].tries = 2 /\ LiveLease(1, clock)
        /\ call[p].tok # col[1].ack /\ call[p].tok < col[1].ack

\* ---------------------------------------------------------------- C3
\* the messages that were Pending (size()'s query) when the claims began:
\* those claimed since and those still claimable
PendingAtStart ==
    {i \in DOMAIN col : col[i].ack # None \/ Eligible(i, clock)}

\* the get() calls made, and those that were given a message
ClaimCalls == {p \in Procs : call[p].op = "get" /\ call[p].on = "main"}
Winners == {p \in ClaimCalls : call[p].res = "msg"}

MinOf(a, b) == IF a <= b THEN a ELSE b

\* C3: under SpecClaims, once the k get() calls made have all returned,
\* exactly min(N, k) of them were given a message, each under a different
\* token and each a different message, and the others came back empty; and
\* at every instant no two messages under an unexpired lease carry the
\* same token.
C3_TokensIssued ==
    /\ (\A p \in ClaimCalls : pc[p] = "done") =>
           /\ Cardinality(Winners) =
                  MinOf(Cardinality(PendingAtStart), Cardinality(ClaimCalls))
           /\ \A p \in ClaimCalls \ Winners : call[p].res = "empty"
           /\ \A p, q \in Winners :
                  p # q => /\ call[p].msg.ack # call[q].msg.ack
                           /\ call[p].msg.id # call[q].msg.id
           /\ \A p \in Winners :
                  /\ col[call[p].msg.id].ack = call[p].msg.ack
                  /\ col[call[p].msg.id].tries = 1
    /\ \A i, j \in DOMAIN col :
           (i # j /\ LiveLease(i, clock) /\ LiveLease(j, clock)) =>
               col[i].ack # col[j].ack

\* C3 witness: two get() calls that read the same clock have returned;
\* one message was Pending; one call was given it and the other came back
\* empty.
C3_Witness ==
    /\ ClaimCalls = Procs
    /\ \A p \in Procs : pc[p] = "done"
    /\ call[1].t = call[2].t
    /\ Cardinality(PendingAtStart) = 1
    /\ Cardinality(Winners) = 1
    /\ Cardinality(DOMAIN col) = 2

\* ---------------------------------------------------------------- C4
\* C4: an ack() with a token no ack() has succeeded with, whose message is
\* under that token's unexpired lease, succeeds, returns the message's
\* identifier and marks it deleted; every ack() with a token an ack() has
\* already succeeded with fails with the unknown-lease error and changes
\* nothing.
C4_SecondAckFails ==
    [][\A p \in Procs :
          (pc[p] = "ack_find" /\ call[p].on = "main" /\ pc'[p] = "ack_reply") =>
              LET tok == call[p].tok
                  t == call[p].t
              IN  /\ tok \in acked =>
                         /\ call'[p].res = "UnknownLease"
                         /\ col' = col
                         /\ dead' = dead
                  /\ \A i \in DOMAIN col :
                         (tok \notin acked /\ col[i].ack = tok
                              /\ col[i].visible > t /\ col[i].deleted = None) =>
                             /\ call'[p].res = "id"
                             /\ call'[p].rid = i
                             /\ col'[i].deleted # None
                             /\ tok \in acked']_vars

\* C4 witness: an ack() has just failed with a token an earlier ack()
\* succeeded with, while the acknowledged message is still stored.
C4_Witness ==
    \E p \in Procs :
        /\ pc[p] = "done" /\ call[p].op = "ack" /\ call[p].on = "main"
        /\ call[p].res = "UnknownLease"
        /\ call[p].tok \in acked
        /\ \E i \in DOMAIN col : col[i].ack = call[p].tok /\ col[i].deleted # None

\* ---------------------------------------------------------------- C5
\* p's findOneAndUpdate of a get() without a user runs, and the eligible
\* message with the smallest identifier is i, which was claimed before
SmallestEligible(p, i) ==
    /\ pc[p] = "get_find" /\ pc'[p] # "get_find"
    /\ call[p].on = "main" /\ call[p].user = None
    /\ i \in DOMAIN col
    /\ Eligible(i, call[p].t)
    /\ \A j \in DOMAIN col : Eligible(j, call[p].t) => i <= j

\* the callback of p's findOneAndUpdate runs, for a get() on the queue that
\* claimed a message claimed before
ReclaimReply(p) ==
    /\ pc[p] = "get_reply" /\ pc'[p] # "get_reply"
    /\ call[p].on = "main"
    /\ call[p].msg.id # None /\ call[p].msg.tries > 1

\* C5 as stated: a message whose lease elapsed without ack or ping is
\* returned, with a new token and tries one higher, by the next get() for
\* which it is the eligible message with the smallest identifier.
C5_AsStated ==
    [][\A p \in Procs :
          /\ \A i \in DOMAIN col :
                 (SmallestEligible(p, i) /\ col[i].ack # None) =>
                     /\ call'[p].msg.id = i
                     /\ call'[p].msg.ack # col[i].ack
                     /\ col'[i].tries = col[i].tries + 1
          /\ ReclaimReply(p) =>
                 /\ pc'[p] = "done" /\ call'[p].res = "msg"
                 /\ call'[p].rid = call[p].msg.id]_vars

\* C5 (amended): such a get() claims the message under a new token, with
\* tries one higher and nothing else stored changed, and returns it --
\* unless a dead-letter queue is configured and the new tries exceeds
\* maxRetries: then the message is not returned but handed to the
\* dead-letter queue.
C5_ReclaimAfterExpiry ==
    [][\A p \in Procs :
          /\ \A i \in DOMAIN col :
                 (SmallestEligible(p, i) /\ col[i].ack # None) =>
                     /\ col'[i].ack = call[p].tok
                     /\ col'[i].ack # col[i].ack
                     /\ col'[i].tries = col[i].tries + 1
                     /\ col'[i].visible > col[i].visible
                     /\ \A j \in DOMAIN col \ {i} : col'[j] = col[j]
                     /\ call'[p].msg.id = i
                     /\ call'[p].msg.ack = call[p].tok
                     /\ call'[p].msg.tries = col[i].tries + 1
          /\ ReclaimReply(p) =>
                 /\ call'[p].msg = call[p].msg
                 /\ IF HasDead(cfg) /\ call[p].msg.tries > cfg.maxRetries
                    THEN pc'[p] = "dead_add" /\ call'[p].res = "none"
                    ELSE pc'[p] = "done" /\ call'[p].res = "msg"
                             /\ call'[p].rid = call[p].msg.id]_vars

\* C5 witness: a get() has just returned a message for its second time.
C5_Witness ==
    \E p \in Procs :
        /\ pc[p] = "done" /\ call[p].op = "get" /\ call[p].on = "main" /\ call[p].res = "msg"
        /\ call[p].msg.tries = 2
        /\ col[call[p].rid].tries = 2

\* ---------------------------------------------------------------- C6
\* C6 as stated: a get() that claimed a message whose tries exceeds
\* maxRetries ends with that message inserted into the dead-letter queue
\* and Done in the queue, and returns another message or the empty result.
C6_ExhaustedIsMoved ==
    \A p \in Procs :
        (pc[p] = "done" /\ call[p].op = "get" /\ call[p].on = "main" /\ call[p].dl # {}) =>
            /\ call[p].res \in {"msg", "empty"}
            /\ \A m \in call[p].dl :
                   /\ m \in DOMAIN col => col[m].deleted # None
                   /\ \E k \in DOMAIN moved : moved[k] = m

\* ---------------------------------------------------------------- C7
\* C7: a message enqueued at clock reading t with delay D is claimed only
\* by get() calls that read the clock at t + D or later.
C7_DelayRespected ==
    [][\A p \in Procs :
          Claims(p) =>
              LET i == call'[p].msg.id
              IN  call[p].t >= enq[i].t + enq[i].delay]_vars

\* C7 witness: a get() has just returned, for the first time, a message
\* that was enqueued with a delay.
C7_Witness ==
    \E p \in Procs :
        /\ pc[p] = "done" /\ call[p].op = "get" /\ call[p].on = "main" /\ call[p].res = "msg"
        /\ enq[call[p].rid].delay > 0
        /\ call[p].msg.tries = 1

\* ---------------------------------------------------------------- C8
\* C8 as stated: a get() (without a user) issued when the clock is equal to
\* or later than the visible of a message that is not Done does not come
\* back empty.
C8_ClaimAtBoundary ==
    [][\A p \in Procs :
          (/\ pc[p] = "get_find" /\ pc'[p] = "get_reply"
           /\ call[p].on = "main" /\ call[p].user = None
           /\ call'[p].msg.id = None) =>
              \A i \in DOMAIN col :
                  ~(col[i].deleted = None /\ col[i].visible <= call[p].t)]_vars

\* ---------------------------------------------------------------- C9
\* C9: a message with deleted set is never changed by any step and never
\* claimed; it leaves the collection only in a step of the deleteMany of a
\* clean() on the queue, which removes that message alone and changes no
\* other.
C9_DoneIsAbsorbing ==
    [][\A i \in DOMAIN col :
          col[i].deleted # None =>
              /\ i \in DOMAIN col' => col'[i] = col[i]
              /\ i \notin DOMAIN col' =>
                     /\ \E p \in Procs :
                            /\ call[p].op = "clean" /\ call[p].on = "main"
                            /\ pc[p] \in {"clean_delete", "clean_scan"}
                            /\ call'[p].count = 1 + (IF pc[p] = "clean_scan"
                                                     THEN call[p].count ELSE 0)
                     /\ DOMAIN col' = DOMAIN col \ {i}
                     /\ \A j \in DOMAIN col' : col'[j] = col[j]
              /\ \A p \in Procs : Claims(p) => call'[p].msg.id # i]_vars

\* C9 witness: a get() that read the clock after the visible of a Done
\* message has just come back empty; the Done message is still stored.
C9_Witness ==
    \E p \in Procs :
        /\ pc[p] = "done" /\ call[p].op = "get" /\ call[p].on = "main" /\ call[p].res = "empty"
        /\ call[p].user = None
        /\ \E i \in DOMAIN col :
               col[i].deleted # None /\ col[i].visible < call[p].t

\* ---------------------------------------------------------------- C10
\* the messages claimed so far
Claimed == {i \in DOMAIN col : col[i].ack # None}

\* C10: under SpecSingle, the messages claimed so far are the first ones
\* enqueued; the n-th get() that returns a message returns the n-th
\* message enqueued, which no smaller eligible message precedes; a get()
\* comes back empty only when no message is eligible for its query; and no
\* message is handed to the dead-letter queue.
C10_EnqueueOrder ==
    /\ \A i \in Claimed : \A j \in DOMAIN col : j < i => j \in Claimed
    /\ (pc[1] = "done" /\ call[1].op = "get" /\ call[1].on = "main" /\ call[1].res = "msg") =>
           /\ call[1].rid = Cardinality(Claimed)
           /\ call[1].msg.id = call[1].rid
           /\ call[1].msg.tries = 1
    /\ (pc[1] = "done" /\ call[1].op = "get" /\ call[1].on = "main" /\ call[1].res = "empty") =>
           \A i \in DOMAIN col : ~Eligible(i, call[1].t)
    /\ pc[1] \notin {"dead_add", "dead_add_reply", "dead_ack_find", "dead_ack_reply"}

\* C10 witness: A and B were enqueued, A was claimed, and a get() has just
\* returned B.
C10_Witness ==
    /\ pc[1] = "done" /\ call[1].op = "get" /\ call[1].on = "main" /\ call[1].res = "msg"
    /\ call[1].rid = 2
    /\ col[1].tries = 1 /\ col[2].tries = 1

\* ---------------------------------------------------------------- C11
\* the messages a ping() or ack() of token tok, built at clock reading t,
\* can act on: not Done, carrying tok, visible after t
Held(tok, t) ==
    {i \in DOMAIN col :
        col[i].ack = tok /\ col[i].visible > t /\ col[i].deleted = None}

\* the lease duration of p's call: the one it passed, else the queue's
LeaseDuration(p) == IF call[p].vis # None THEN call[p].vis ELSE cfg.visibility

\* C11: when a ping() completes and its token is held by a message that is
\* not Done and has visible after the call's clock reading, the ping
\* succeeds with that message's id, sets its visible to that reading plus
\* the lease duration, and changes no other field of it and no other
\* message; when no such message exists the ping fails with the
\* unknown-lease error and the collection is unchanged.  The dead-letter
\* queue is unchanged either way.
C11_PingFrame ==
    [][\A p \in Procs :
          (pc[p] = "ping_find" /\ call[p].on = "main" /\ pc'[p] = "ping_reply") =>
              LET held == Held(call[p].tok, call[p].t)
              IN  /\ dead' = dead
                  /\ IF held = {}
                     THEN /\ call'[p].res = "UnknownLease"
                          /\ col' = col
                     ELSE \E i \in held :
                              /\ call'[p].res = "id" /\ call'[p].rid = i
                              /\ col' = [col EXCEPT ![i].visible =
                                             call[p].t + LeaseDuration(p)]]_vars

\* C11 witness: a ping() that passed MaxVis seconds has just succeeded on
\* a claimed message, whose visible is now the ping's clock reading plus
\* MaxVis and whose tries is still 1, while a second message is in the queue.
C11_Witness ==
    \E p \in Procs :
        /\ pc[p] = "done" /\ call[p].op = "ping" /\ call[p].on = "main" /\ call[p].res = "id"
        /\ call[p].vis = MaxVis
        /\ col[call[p].rid].visible = call[p].t + MaxVis
        /\ col[call[p].rid].tries = 1
        /\ Cardinality(DOMAIN col) = 2

\* ---------------------------------------------------------------- C12
\* C12 as stated: firstClaimed is written only by the first claim of a
\* message (the one that finds tries = 0), and once written it never
\* changes while the message is stored, whatever re-claims follow.
C12_FirstClaimedOnce ==
    [][\A i \in DOMAIN col \cap DOMAIN col' :
          /\ col[i].firstClaimed # None =>
                 col'[i].firstClaimed = col[i].firstClaimed
          /\ col'[i].firstClaimed # col[i].firstClaimed =>
                 col[i].tries = 0]_vars

\* ---------------------------------------------------------------- C13
\* the callers whose get() claims document i in this step
ClaimersOf(i) == {p \in Procs : Claims(p) /\ call'[p].msg.id = i}

\* C13: in every step, the tries of every stored message grows by one if
\* a get() claims the message in that step and is unchanged otherwise (so
\* add, ping, ack, clean and get() calls that claim nothing or fail leave
\* it alone and it never decreases); a message is inserted with tries 0;
\* and tries is 0 exactly while the message has never been given a token.
C13_TriesCountsClaims ==
    [][\A i \in DOMAIN col' :
          /\ IF i \in DOMAIN col
             THEN col'[i].tries = col[i].tries + Cardinality(ClaimersOf(i))
             ELSE col'[i].tries = 0
          /\ col'[i].tries = 0 <=> col'[i].ack = None]_vars

\* C13 witness: a ping() has just succeeded on a message that was claimed
\* twice, and the message's tries is 2.
C13_Witness ==
    \E p \in Procs :
        /\ pc[p] = "done" /\ call[p].op = "ping" /\ call[p].on = "main" /\ call[p].res = "id"
        /\ col[call[p].rid].tries = 2
        /\ col[call[p].rid].ack = call[p].tok

\* ---------------------------------------------------------------- C14
\* the three states of a stored message d at instant t
IsPending(d, t) == d.deleted = None /\ d.visible <= t
IsLeased(d, t) == d.deleted = None /\ d.ack # None /\ d.visible > t
IsDone(d) == d.deleted # None

\* how many of the three states d is in at instant t
StatesOf(d, t) ==
    Cardinality({k \in 1..3 : \/ k = 1 /\ IsPending(d, t)
                              \/ k = 2 /\ IsLeased(d, t)
                              \/ k = 3 /\ IsDone(d)})

\* C14 as stated: at every instant every stored message is in exactly one
\* of the states Pending, Leased and Done.
C14_AsStated ==
    \A i \in DOMAIN col : StatesOf(col[i], clock) = 1

\* C14: at every instant every stored message is in at most one of the
\* states Pending, Leased and Done, and a message in none of them is one
\* that was enqueued with a delay, has never been claimed (tries 0, no
\* ack) and still has the visible it was enqueued with, which is after
\* the clock.
C14_OneStateOrDelayed ==
    \A i \in DOMAIN col :
        /\ StatesOf(col[i], clock) <= 1
        /\ StatesOf(col[i], clock) = 0 =>
               /\ col[i].tries = 0 /\ col[i].ack = None
               /\ enq[i].delay > 0
               /\ col[i].visible = enq[i].t + enq[i].delay
               /\ col[i].visible > clock

\* C14 witness: the first message is under an unexpired lease while the
\* second, enqueued with a delay, is not visible yet and is in none of the
\* three states.
C14_Witness ==
    /\ DOMAIN col = {1, 2}
    /\ IsLeased(col[1], clock)
    /\ StatesOf(col[2], clock) = 0
    /\ enq[2].delay = MaxDelay

\* ---------------------------------------------------------------- C15
\* p's get() is in progress
InGet(p) ==
    /\ call[p].op = "get" /\ call[p].on = "main"
    /\ pc[p] \in {"get_find", "get_reply", "dead_add", "dead_add_reply",
                 "dead_ack_find", "dead_ack_reply"}

\* the messages p's get() has skipped: each was claimed with more tries
\* than maxRetries and is Done
Skipped(p) ==
    \A m \in call[p].dl :
        col[m].deleted # None /\ col[m].tries > cfg.maxRetries

\* C15: every get() in progress eventually reaches its callback, with a
\* message, the empty result or an error; and each time it recurses it has
\* made one more distinct message Done, each of them an exhausted one, so
\* that it recurses no more often than there are exhausted messages.
C15_RecursionTerminates ==
    /\ [](\A p \in Procs :
              pc[p] = "get_find" =>
                  /\ Skipped(p)
                  /\ Cardinality(call[p].dl) <=
                         Cardinality({i \in DOMAIN col :
                                         col[i].tries > cfg.maxRetries})
                  /\ Cardinality(call[p].dl) <= nextDeadId - 1)
    /\ \A p \in Procs :
           InGet(p) ~> (pc[p] = "done" /\ call[p].op = "get" /\ call[p].on = "main"
                        /\ call[p].res \in {"msg", "empty", "UnknownLease"})

\* C15 witness: a get() that skipped an exhausted message and recursed has
\* reached its callback.
C15_Witness ==
    \E p \in Procs :
        /\ pc[p] = "done" /\ call[p].op = "get" /\ call[p].on = "main"
        /\ call[p].dl # {} /\ call[p].res \in {"msg", "empty"}

\* ---------------------------------------------------------------- C16
\* C16 as stated: when a get() that handed a message to the dead-letter
\* queue reaches its callback with an error, every message it handed over
\* is Done in the queue: none is both in the dead-letter queue and still
\* claimable from the queue.
C16_ErrorAfterHandOff ==
    \A p \in Procs :
        (/\ pc[p] = "done" /\ call[p].op = "get" /\ call[p].on = "main"
         /\ call[p].dl # {}
         /\ call[p].res \notin {"msg", "empty"}) =>
            \A m \in call[p].dl :
                (\E k \in DOMAIN moved : moved[k] = m) =>
                    col[m].deleted # None

\* ---------------------------------------------------------------- C18
\* C18 as stated: no two entries the hand-off has inserted in the
\* dead-letter queue are copies of the same message of the queue.
C18_DeadLetteredOnce ==
    \A j, k \in DOMAIN moved :
        j # k => moved[j] # moved[k]

\* ---------------------------------------------------------------- C19
\* C19 as stated: the message a get() gives its caller has visible equal to
\* the clock reading of the claim that took it plus the visibility the
\* caller passed, or plus the queue's visibility when the caller passed
\* none, also when the claim that took it is the recursive one.
C19_LeaseAsRequested ==
    \A p \in Procs :
        (pc[p] = "done" /\ call[p].op = "get" /\ call[p].on = "main" /\ call[p].res = "msg") =>
            call[p].msg.visible =
                call[p].t + (IF call[p].asked # None THEN call[p].asked
                                                     ELSE cfg.visibility)

\* ---------------------------------------------------------------- C17
\* a step of the deleteMany of p's clean() on the queue
CleanStep(p) ==
    /\ pc[p] \in {"clean_delete", "clean_scan"} /\ call[p].on = "main"
    /\ call'[p] # call[p]

\* the step of that deleteMany with which it completes
CleanEnds(p) == CleanStep(p) /\ pc'[p] = "clean_reply"

\* what every step of the deleteMany of p's clean() leaves alone: it
\* removes at most one message, one with deleted set, and counts it; every
\* other message stays with all its fields; the query of ping() and ack()
\* matches, for every token issued and every clock reading, the same
\* messages after the step as before; the dead-letter queue is unchanged
CleanFrame(p) ==
    /\ DOMAIN col' \subseteq DOMAIN col
    /\ Cardinality(DOMAIN col \ DOMAIN col') <= 1
    /\ \A i \in DOMAIN col \ DOMAIN col' : col[i].deleted # None
    /\ \A i \in DOMAIN col' : col'[i] = col[i]
    /\ \A tok \in Presentable, t \in 0..MaxTime :
           LeaseMatches(col', tok, t) = LeaseMatches(col, tok, t)
    /\ call'[p].count = (IF pc[p] = "clean_scan" THEN call[p].count ELSE 0)
                            + Cardinality(DOMAIN col \ DOMAIN col')
    /\ dead' = dead

\* C17 as stated: a clean() on the queue removes all and only the messages
\* with deleted set; every other message keeps all its fields and every
\* unexpired lease can still be renewed and acknowledged; when the purge
\* has completed, no message with deleted set is in the queue (done() is
\* 0).
C17_AsStated ==
    [][\A p \in Procs :
          /\ CleanStep(p) => CleanFrame(p)
          /\ CleanEnds(p) => /\ call'[p].res = "ok"
                             /\ done(col') = 0]_vars

\* C17 (amended): a clean() on the queue removes only messages with deleted
\* set, and every message acknowledged before its deleteMany began; every
\* other message keeps all its fields and every unexpired lease can still
\* be renewed and acknowledged; when the purge has completed, every
\* message with deleted set that is still in the queue was acknowledged
\* while the purge ran, so that done() is 0 when no ack() succeeded
\* meanwhile.  The dead-letter queue is unchanged.
C17_CleanPurgesDone ==
    [][\A p \in Procs :
          /\ CleanStep(p) => CleanFrame(p)
          /\ CleanEnds(p) =>
                 /\ call'[p].res = "ok"
                 /\ \A i \in DOMAIN col' :
                        col'[i].deleted # None =>
                            col'[i].ack \notin call'[p].acked0
                 /\ acked' = call'[p].acked0 => done(col') = 0]_vars

\* C17 witness: a clean() has just purged an acknowledged message, and the
\* message that remains is under an unexpired lease taken before the purge.
C17_Witness ==
    \E p \in Procs :
        /\ pc[p] = "done" /\ call[p].op = "clean" /\ call[p].on = "main"
        /\ call[p].count = 1
        /\ done(col) = 0
        /\ \E i \in DOMAIN col : LiveLease(i, clock)

\* ---------------------------------------------------------------- C20
\* C20 as stated: a get() that passes a user and finds an eligible message
\* (not deleted, visible before the call's clock reading) claims a
\* message, and that message carries the user both as stored and as
\* handed to the callback.
C20_ClaimantRecorded ==
    [][\A p \in Procs :
          (/\ pc[p] = "get_find" /\ pc'[p] = "get_reply"
           /\ call[p].on = "main" /\ call[p].user # None
           /\ \E i \in DOMAIN col : Eligible(i, call[p].t)) =>
              /\ call'[p].res # "StorageError"
              /\ call'[p].msg.id # None
              /\ call'[p].msg.user = call[p].user
              /\ col'[call'[p].msg.id].user = call[p].user]_vars

====
